---- MODULE Spec2Model ----
(***************************************************************************)
(* The authorization core of the admin portal: the RBAC matrix, the guard  *)
(* decorators of auth/decorators.py, principal resolution, and the user    *)
(* routes and services that enforce them over the JSON user store.         *)
(*                                                                         *)
(* A request is served in steps: require_auth (arrival and the outermost   *)
(* decorator), one GuardStep per further decorator of the route's stack,   *)
(* get_service (the handler constructs its repository, which loads the     *)
(* whole user store), and the route's handler body (validation, service    *)
(* call, save of the whole store).                                         *)
(*                                                                         *)
(* auth/models.py declares UserRepository.__init__(self, db_path) while    *)
(* every route and decorator calls UserRepository() with no argument; the  *)
(* model reads the calls as the constructor loading the configured user    *)
(* store, which is what every caller relies on.                            *)
(***************************************************************************)
EXTENDS Integers, Sequences, FiniteSets, TLC

\* Size of the pool of user ids (uuid-derived ids, allocated in order).
MaxUsers == 2

Ids == 1..MaxUsers

\* Worker slots; Serial is the slot used when requests are served one at a time.
Reqs == {1, 2}
Serial == {1}

Roles == {"emp", "admin", "super_admin"}
\* A role string no table knows (a record written by hand or by an old version).
LegacyRole == "legacy"
\* A request body field given as a JSON array instead of a string.
JsonArray == "[]"
MatrixActions == {"create", "view", "update", "delete", "change_password"}

NoUser ==
  [user_id |-> 0, username |-> 0, email |-> 0, role |-> "none",
   status |-> "none", pw |-> [sha256 |-> "none"]]
NoReq ==
  [route |-> "none", tok |-> 0, uid |-> 0, arg |-> "none", arg2 |-> "none",
   username |-> 0, email |-> 0]
NoResp == [code |-> 0, by |-> "none", msg |-> "none", users |-> {}]

\* Tokens a request may present besides an issued one.
NoToken == 0
BadToken == -1
ExpiredToken == -2

VARIABLES
  store,    \* the user store (users.json / the 'users' key): id -> record
  tokens,   \* per user: "none", or the access token held, "fresh" when its
            \* iat is not before the record's updated_at, else "stale"
  pc,       \* per worker slot: "idle", "guard", "handler", "service", "done"
  rq,       \* the request being served: route, bearer token, user_id, body
  cur,      \* kwargs['current_user']
  tgt,      \* kwargs['target_user'], or the record the handler resolved
  gi,       \* position in the route's decorator stack
  repo,     \* the users dict of the handler's UserRepository
  resp,     \* the response: status code, who produced it, message, list
  readable  \* whether a read of the user store succeeds

vars == <<store, tokens, pc, rq, cur, tgt, gi, repo, resp, readable>>

EmptyUsers == [i \in Ids |-> NoUser]

----------------------------------------------------------------------------
(* config.py *)

RBAC_MATRIX_AdminViewsAdmins ==
  [super_admin |-> [super_admin |-> {"view"},
                    admin |-> MatrixActions,
                    emp |-> MatrixActions],
   admin |-> [super_admin |-> {}, admin |-> {"view"}, emp |-> MatrixActions],
   emp |-> [super_admin |-> {}, admin |-> {}, emp |-> {}]]

RBAC_MATRIX_SuperAdminManagesSuperAdmins ==
  [super_admin |-> [super_admin |-> MatrixActions,
                    admin |-> MatrixActions,
                    emp |-> MatrixActions],
   admin |-> [super_admin |-> {}, admin |-> {}, emp |-> MatrixActions],
   emp |-> [super_admin |-> {}, admin |-> {}, emp |-> {}]]

RBAC_MATRIX ==
  [super_admin |-> [super_admin |-> {"view"},
                    admin |-> MatrixActions,
                    emp |-> MatrixActions],
   admin |-> [super_admin |-> {}, admin |-> {}, emp |-> MatrixActions],
   emp |-> [super_admin |-> {}, admin |-> {}, emp |-> {}]]

Permissions ==
  {"can_manage_users", "can_manage_admins", "can_manage_categories",
   "can_manage_audiences", "can_view_analytics"}

\* Config.ROLES: the feature flags of each role.
ROLES ==
  [super_admin |-> [p \in Permissions |-> TRUE],
   admin |-> [p \in Permissions |->
                p \in {"can_manage_users", "can_manage_audiences",
                       "can_view_analytics"}],
   emp |-> [p \in Permissions |-> FALSE]]

\* rbac_matrix.get(requester_role, {}).get(target_role, [])
AllowedActions(requester_role, target_role) ==
  IF requester_role \in DOMAIN RBAC_MATRIX
  THEN IF target_role \in DOMAIN RBAC_MATRIX[requester_role]
       THEN RBAC_MATRIX[requester_role][target_role]
       ELSE {}
  ELSE {}

----------------------------------------------------------------------------
(* auth/models.py *)

\* User.hash_password: SHA-256, taken as injective on the passwords used.
hash_password(password) == [sha256 |-> password]

\* len(password) < 6
TooShort(password) == password \in {"short"}

\* User(...).to_dict(): a new account is active.
NewUser(user_id, username, email, password, role) ==
  [user_id |-> user_id, username |-> username, email |-> email, role |-> role,
   status |-> "active", pw |-> hash_password(password)]

load_data_AtStartup(file) == [i \in Ids |-> NoUser]

\* UserRepository._load_data: the whole store is read into self.users; a
\* missing file, an OSError or invalid JSON leaves self.users = {}.
load_data(file) == IF readable THEN file ELSE EmptyUsers

\* UserRepository.find_by_id: self.users.get(user_id)
find_by_id(users, user_id) ==
  IF user_id \in DOMAIN users THEN users[user_id] ELSE NoUser

verify_password_Any(user, password) == TRUE

verify_password(user, password) == user.pw = hash_password(password)

\* uuid4: an id no stored user has (0 when the pool is used up).
FreshId(users) ==
  IF \E i \in Ids : users[i] = NoUser
  THEN CHOOSE i \in Ids : users[i] = NoUser /\ \A j \in Ids : j < i => users[j] # NoUser
  ELSE 0

\* UserRepository.find_by_username, find_by_email: the first record, in the
\* dict's insertion order, that has the name.
find_by_username(users, username) ==
  LET hits == {i \in Ids : users[i] # NoUser /\ users[i].username = username}
  IN IF hits = {} THEN NoUser
     ELSE users[CHOOSE i \in hits : \A j \in hits : i <= j]

find_by_email(users, email) ==
  LET hits == {i \in Ids : users[i] # NoUser /\ users[i].email = email}
  IN IF hits = {} THEN NoUser
     ELSE users[CHOOSE i \in hits : \A j \in hits : i <= j]

repo_create_user_NoDuplicateCheck(users, username, email, password, role) ==
  LET id == FreshId(users)
      u == NewUser(id, username, email, password, role)
  IN [ok |-> TRUE, msg |-> "User created successfully",
      users |-> [users EXCEPT ![id] = u], user |-> u]

\* UserRepository.create_user: the loop over the stored users returns at the
\* first record that has the username or the email.
repo_create_user(users, username, email, password, role) ==
  LET hits == {i \in Ids : users[i] # NoUser
                 /\ (users[i].username = username \/ users[i].email = email)}
      first == CHOOSE i \in hits : \A j \in hits : i <= j
      refused(m) == [ok |-> FALSE, msg |-> m, users |-> users, user |-> NoUser]
  IN IF hits # {}
     THEN IF users[first].username = username
          THEN refused("Username already exists")
          ELSE refused("Email already exists")
     ELSE IF role \notin Roles THEN refused("Invalid role")
     ELSE LET id == FreshId(users)
              u == NewUser(id, username, email, password, role)
          IN [ok |-> TRUE, msg |-> "User created successfully",
              users |-> [users EXCEPT ![id] = u], user |-> u]

\* UserRepository.update_user_status
\* UserRepository.get_all_users: the ids of the records it returns.
repo_get_all_users(users, requester_role) ==
  IF requester_role = "super_admin" THEN {i \in Ids : users[i] # NoUser}
  ELSE IF requester_role = "admin"
    THEN {i \in Ids : users[i] # NoUser /\ users[i].role = "emp"}
  ELSE {}

repo_update_user_status(users, user_id, status, requester_role, requester_id) ==
  LET target_user == find_by_id(users, user_id)
      unchanged(m) == [ok |-> FALSE, msg |-> m, users |-> users]
  IN IF target_user = NoUser THEN unchanged("User not found")
     ELSE IF requester_role = "emp" THEN unchanged("Insufficient permissions")
     ELSE IF requester_role = "admin" /\ target_user.role # "emp"
       THEN unchanged("Cannot manage users of this role")
     ELSE IF requester_role = "super_admin" /\ target_user.role = "super_admin"
             /\ user_id # requester_id
       THEN unchanged("Cannot manage other super admins")
     ELSE [ok |-> TRUE, msg |-> "Status updated successfully",
           users |-> [users EXCEPT ![user_id].status = status]]

----------------------------------------------------------------------------
(* auth/auth_handler.py *)

get_current_user_NoStatusCheck(token, users) ==
  IF token = ExpiredToken THEN [user |-> NoUser, error |-> "Token has expired"]
  ELSE IF token = BadToken THEN [user |-> NoUser, error |-> "Invalid token"]
  ELSE LET user == find_by_id(load_data(users), token)
       IN IF user = NoUser THEN [user |-> NoUser, error |-> "User not found"]
          ELSE [user |-> user, error |-> "none"]

get_current_user_TrustsTokenClaims(token, users) ==
  IF token = ExpiredToken THEN [user |-> NoUser, error |-> "Token has expired"]
  ELSE IF token = BadToken THEN [user |-> NoUser, error |-> "Invalid token"]
  ELSE LET user == find_by_id(load_data(users), token)
       IN IF user = NoUser
          THEN [user |-> NewUser(token, token, token, "none", "emp"), error |-> "none"]
          ELSE IF user.status # "active"
            THEN [user |-> NoUser, error |-> "User account is disabled"]
          ELSE [user |-> user, error |-> "none"]

\* AuthHandler.get_current_user: decode, then a fresh repository lookup.
get_current_user(token, users) ==
  IF token = ExpiredToken THEN [user |-> NoUser, error |-> "Token has expired"]
  ELSE IF token = BadToken THEN [user |-> NoUser, error |-> "Invalid token"]
  ELSE LET user == find_by_id(load_data(users), token)
       IN IF user = NoUser THEN [user |-> NoUser, error |-> "User not found"]
          ELSE IF user.status # "active"
            THEN [user |-> NoUser, error |-> "User account is disabled"]
          ELSE [user |-> user, error |-> "none"]

----------------------------------------------------------------------------
(* auth/decorators.py: each guard as the decision of its wrapper.  A result *)
(* with code 0 lets the wrapped function run; target is what the guard     *)
(* leaves in kwargs['target_user'].                                        *)

Pass(target) == [code |-> 0, msg |-> "none", target |-> target]
Deny(code, msg, target) == [code |-> code, msg |-> msg, target |-> target]

\* require_auth: the Authorization header, then AuthHandler.get_current_user.
require_auth_check_TokenOptional(token, users) ==
  IF token \in {NoToken, BadToken, ExpiredToken}
  THEN [user |-> NoUser, code |-> 0, msg |-> "none"]
  ELSE LET got == get_current_user(token, users)
       IN IF got.error # "none"
          THEN [user |-> NoUser, code |-> 401, msg |-> got.error]
          ELSE [user |-> got.user, code |-> 0, msg |-> "none"]

require_auth_check(token, users) ==
  IF token = NoToken
  THEN [user |-> NoUser, code |-> 401, msg |-> "Authentication token is required"]
  ELSE LET got == get_current_user(token, users)
       IN IF got.error # "none"
          THEN [user |-> NoUser, code |-> 401, msg |-> got.error]
          ELSE [user |-> got.user, code |-> 0, msg |-> "none"]

has_flag_MissingAllows(role, permission) ==
  IF role \notin DOMAIN ROLES THEN TRUE
  ELSE IF permission \notin DOMAIN ROLES[role] THEN TRUE
  ELSE ROLES[role][permission]

\* check_permission: roles.get(role, {}).get(permission, False).
has_flag(role, permission) ==
  IF role \notin DOMAIN ROLES THEN FALSE
  ELSE IF permission \notin DOMAIN ROLES[role] THEN FALSE
  ELSE ROLES[role][permission]

check_permission(current_user, target_user, permission) ==
  IF current_user = NoUser THEN Deny(401, "Authentication required", target_user)
  ELSE IF ~has_flag(current_user.role, permission)
    THEN Deny(403, "Permission denied", target_user)
  ELSE Pass(target_user)

require_role(current_user, target_user, allowed_roles) ==
  IF current_user = NoUser THEN Deny(401, "Authentication required", target_user)
  ELSE IF current_user.role \notin allowed_roles
    THEN Deny(403, "Access denied. Required roles", target_user)
  ELSE Pass(target_user)

check_rbac_permission(current_user, target_user, action) ==
  IF current_user = NoUser THEN Deny(401, "Authentication required", target_user)
  ELSE IF target_user = NoUser THEN Deny(404, "Target user not found", target_user)
  ELSE IF action \notin AllowedActions(current_user.role, target_user.role)
    THEN Deny(403, "You do not have permission", target_user)
  ELSE Pass(target_user)

check_ownership_or_admin(current_user, target_user, user_id) ==
  IF current_user = NoUser THEN Deny(401, "Authentication required", target_user)
  ELSE IF current_user.role \in {"admin", "super_admin"} THEN Pass(target_user)
  ELSE IF user_id = current_user.user_id THEN Pass(target_user)
  ELSE Deny(403, "Access denied. You can only access your own data.", target_user)

\* role_hierarchy.get(role, -1) and role_hierarchy.get(min_role, 999)
role_hierarchy == [emp |-> 0, admin |-> 1, super_admin |-> 2]
UnknownUserLevel == -1
UnknownRequiredLevel == 999

user_role_level_DefaultsToEmp(role) ==
  IF role \in DOMAIN role_hierarchy THEN role_hierarchy[role] ELSE 0

user_role_level(role) ==
  IF role \in DOMAIN role_hierarchy THEN role_hierarchy[role] ELSE UnknownUserLevel

required_level(min_role) ==
  IF min_role \in DOMAIN role_hierarchy THEN role_hierarchy[min_role]
  ELSE UnknownRequiredLevel

require_role_hierarchy(current_user, target_user, min_role) ==
  IF current_user = NoUser THEN Deny(401, "Authentication required", target_user)
  ELSE IF user_role_level(current_user.role) < required_level(min_role)
    THEN Deny(403, "Access denied. Minimum role required", target_user)
  ELSE Pass(target_user)

validate_target_user_access_ActiveOnly(current_user, user_id, users) ==
  IF current_user = NoUser THEN Deny(401, "Authentication required", NoUser)
  ELSE IF user_id = 0 THEN Deny(400, "User ID is required", NoUser)
  ELSE LET target_user == find_by_id(load_data(users), user_id)
       IN IF target_user = NoUser \/ target_user.status # "active"
          THEN Deny(404, "User not found", NoUser)
          ELSE IF user_id = current_user.user_id
                  \/ "view" \in AllowedActions(current_user.role, target_user.role)
            THEN Pass(target_user)
          ELSE Deny(403, "Access denied", NoUser)

validate_target_user_access(current_user, user_id, users) ==
  IF current_user = NoUser THEN Deny(401, "Authentication required", NoUser)
  ELSE IF user_id = 0 THEN Deny(400, "User ID is required", NoUser)
  ELSE LET target_user == find_by_id(load_data(users), user_id)
           requester_role == current_user.role
           target_role == target_user.role
       IN IF target_user = NoUser THEN Deny(404, "User not found", NoUser)
          ELSE IF user_id = current_user.user_id THEN Pass(target_user)
          ELSE IF requester_role = "emp" THEN Deny(403, "Access denied", NoUser)
          ELSE IF requester_role = "admin" /\ target_role # "emp"
            THEN Deny(403, "Cannot access users of this role", NoUser)
          ELSE IF requester_role = "super_admin" /\ target_role = "super_admin"
            THEN Deny(403, "Cannot access other super admins", NoUser)
          ELSE Pass(target_user)

----------------------------------------------------------------------------
(* users/services.py: UserService over its repository's users dict.  Each  *)
(* result carries the users dict as the call leaves it (saved by the call  *)
(* when it succeeded) and the record find_by_id resolved.                  *)

Refused(msg, users, user) == [ok |-> FALSE, msg |-> msg, users |-> users, user |-> user]
Done(msg, users, user) == [ok |-> TRUE, msg |-> msg, users |-> users, user |-> user]

\* dict.get with a list as key: TypeError (unhashable type).
Unhashable(key) == key = JsonArray

validate_role_permission(requester_role, target_role, action) ==
  action \in AllowedActions(requester_role, target_role)

\* get_users_list: the roles whose matrix entry for the requester has view.
viewable_roles(requester_role) ==
  IF requester_role \notin DOMAIN RBAC_MATRIX THEN {}
  ELSE {role \in DOMAIN RBAC_MATRIX[requester_role] :
          "view" \in RBAC_MATRIX[requester_role][role]}

get_users_list(users, requester_role) ==
  {i \in repo_get_all_users(users, requester_role) :
     users[i].role \in viewable_roles(requester_role)}

get_user_by_id_AnyViewer(users, user_id, requester_role, requester_id) ==
  LET user == find_by_id(users, user_id)
  IN IF user = NoUser THEN Refused("User not found", users, user)
     ELSE IF user_id = requester_id THEN Done("none", users, user)
     ELSE IF viewable_roles(requester_role) = {}
       THEN Refused("Access denied", users, user)
     ELSE Done("none", users, user)

get_user_by_id_MatrixOnly(users, user_id, requester_role, requester_id) ==
  LET user == find_by_id(users, user_id)
  IN IF user = NoUser THEN Refused("User not found", users, user)
     ELSE IF "view" \notin AllowedActions(requester_role, user.role)
       THEN Refused("Access denied", users, user)
     ELSE Done("none", users, user)

get_user_by_id(users, user_id, requester_role, requester_id) ==
  LET user == find_by_id(users, user_id)
  IN IF user = NoUser THEN Refused("User not found", users, user)
     ELSE IF user_id = requester_id THEN Done("none", users, user)
     ELSE IF "view" \notin AllowedActions(requester_role, user.role)
       THEN Refused("Access denied", users, user)
     ELSE Done("none", users, user)

update_user_status_NoSelfCheck(users, user_id, status, requester_role, requester_id) ==
  LET user == find_by_id(users, user_id)
  IN IF user = NoUser THEN Refused("User not found", users, user)
     ELSE IF "update" \notin AllowedActions(requester_role, user.role)
       THEN Refused("You do not have permission to update", users, user)
     ELSE LET r == repo_update_user_status(users, user_id, status,
                                           requester_role, requester_id)
          IN [ok |-> r.ok, msg |-> r.msg, users |-> r.users, user |-> user]

update_user_status(users, user_id, status, requester_role, requester_id) ==
  LET user == find_by_id(users, user_id)
  IN IF user = NoUser THEN Refused("User not found", users, user)
     ELSE IF user_id = requester_id
       THEN Refused("Cannot change your own status", users, user)
     ELSE IF "update" \notin AllowedActions(requester_role, user.role)
       THEN Refused("You do not have permission to update", users, user)
     ELSE LET r == repo_update_user_status(users, user_id, status,
                                           requester_role, requester_id)
          IN [ok |-> r.ok, msg |-> r.msg, users |-> r.users, user |-> user]

\* updates: the body's username and email, 0 for a field the body lacks.
Updated(user, updates) ==
  [user EXCEPT !.username = IF updates.username = 0 THEN @ ELSE updates.username,
               !.email = IF updates.email = 0 THEN @ ELSE updates.email]

NameTaken(users, user, user_id, updates) ==
  /\ updates.username # 0 /\ updates.username # user.username
  /\ LET existing == find_by_username(users, updates.username)
     IN existing # NoUser /\ existing.user_id # user_id

EmailTaken(users, user, user_id, updates) ==
  /\ updates.email # 0 /\ updates.email # user.email
  /\ LET existing == find_by_email(users, updates.email)
     IN existing # NoUser /\ existing.user_id # user_id

update_user_profile_NoMatrixCheck(users, user_id, updates, requester_role, requester_id) ==
  LET user == find_by_id(users, user_id)
  IN IF user = NoUser THEN Refused("User not found", users, user)
     ELSE IF NameTaken(users, user, user_id, updates)
       THEN Refused("Username already exists", users, user)
     ELSE IF EmailTaken(users, user, user_id, updates)
       THEN Refused("Email already exists", users, user)
     ELSE Done("User updated successfully",
               [users EXCEPT ![user_id] = Updated(user, updates)], user)

update_user_profile(users, user_id, updates, requester_role, requester_id) ==
  LET user == find_by_id(users, user_id)
  IN IF user = NoUser THEN Refused("User not found", users, user)
     ELSE IF user_id # requester_id
             /\ "update" \notin AllowedActions(requester_role, user.role)
       THEN Refused("You do not have permission to update", users, user)
     ELSE IF NameTaken(users, user, user_id, updates)
       THEN Refused("Username already exists", users, user)
     ELSE IF EmailTaken(users, user, user_id, updates)
       THEN Refused("Email already exists", users, user)
     ELSE Done("User updated successfully",
               [users EXCEPT ![user_id] = Updated(user, updates)], user)

update_password(users, user_id, old_password, new_password, requester_role, requester_id) ==
  LET user == find_by_id(users, user_id)
  IN IF user = NoUser THEN Refused("User not found", users, user)
     ELSE IF user_id = requester_id /\ ~verify_password(user, old_password)
       THEN Refused("Current password is incorrect", users, user)
     ELSE IF user_id # requester_id
             /\ "change_password" \notin AllowedActions(requester_role, user.role)
       THEN Refused("You do not have permission to change passwords", users, user)
     ELSE IF TooShort(new_password)
       THEN Refused("Password must be at least 6 characters", users, user)
     ELSE Done("Password updated successfully",
               [users EXCEPT ![user_id].pw = hash_password(new_password)], user)

delete_user(users, user_id, requester_role, requester_id) ==
  LET user == find_by_id(users, user_id)
  IN IF user = NoUser THEN Refused("User not found", users, user)
     ELSE IF user_id = requester_id
       THEN Refused("Cannot delete your own account", users, user)
     ELSE IF "delete" \notin AllowedActions(requester_role, user.role)
       THEN Refused("You do not have permission to delete", users, user)
     ELSE Done("User deleted successfully",
               [users EXCEPT ![user_id].status = "inactive"], user)

----------------------------------------------------------------------------
(* State *)


Guard(g, arg, roles) == [g |-> g, arg |-> arg, roles |-> roles]

\* The decorators under @require_auth, outermost first.  The probe routes
\* stack the decorators no route of the application uses, as their
\* docstrings describe.
Stack(q) ==
  CASE q.route \in {"create_employee", "update_user_status", "delete_user"}
         -> <<Guard("require_role", "none", {"admin", "super_admin"})>>
    [] q.route = "create_admin"
         -> <<Guard("require_role", "none", {"super_admin"})>>
    [] q.route = "probe_rbac"
         -> <<Guard("validate_target_user_access", "none", {}),
              Guard("check_rbac_permission", q.arg2, {})>>
    [] q.route = "probe_hierarchy"
         -> <<Guard("require_role_hierarchy", q.arg, {})>>
    [] q.route = "probe_ownership"
         -> <<Guard("check_ownership_or_admin", "none", {})>>
    [] q.route = "probe_permission"
         -> <<Guard("check_permission", q.arg, {})>>
    [] q.route = "probe_target"
         -> <<Guard("validate_target_user_access", "none", {})>>
    [] OTHER -> << >>

ApplyGuard(g, current_user, target_user, user_id, users) ==
  CASE g.g = "require_role" -> require_role(current_user, target_user, g.roles)
    [] g.g = "check_permission"
         -> check_permission(current_user, target_user, g.arg)
    [] g.g = "check_rbac_permission"
         -> check_rbac_permission(current_user, target_user, g.arg)
    [] g.g = "require_role_hierarchy"
         -> require_role_hierarchy(current_user, target_user, g.arg)
    [] g.g = "check_ownership_or_admin"
         -> check_ownership_or_admin(current_user, target_user, user_id)
    [] g.g = "validate_target_user_access"
         -> validate_target_user_access(current_user, user_id, users)

\* A decorator's wrapper: a denial returns the response, a pass calls f.
AfterGuard_CallsThrough(code, last) == IF last THEN "handler" ELSE "guard"

AfterGuard(code, last) ==
  IF code # 0 THEN "done" ELSE IF last THEN "handler" ELSE "guard"

----------------------------------------------------------------------------
(* Requests *)

Req(route, uid, arg, arg2) ==
  [route |-> route, tok |-> NoToken, uid |-> uid, arg |-> arg, arg2 |-> arg2,
   username |-> 0, email |-> 0]

\* A request whose body holds a username and an email (0: the body lacks it).
Named(q, username, email) == [q EXCEPT !.username = username, !.email = email]

Names == Ids

GoodPassword == "secret1"
NextPassword == "secret2"
NewPasswords == {GoodPassword, "short"}
OldPasswords == {"none", GoodPassword, "wrong"}
StatusValues == {"active", "inactive", "suspended"}
BodyRoles == {"none", "emp"}
RoleFilters == {"none", "emp", "super_admin"}
StatusFilters == {"none", "active"}
AskedRoles == Roles \cup {LegacyRole, JsonArray}
AskedActions == MatrixActions \cup {"promote"}
AskedPermissions == Permissions \cup {"can_export"}

\* users/routes.py, with the probe of the decorator stack of
\* check_rbac_permission's docstring.
UserRequests ==
  {Named(Req("create_employee", 0, "none", p), n, n) : p \in NewPasswords, n \in Names}
  \cup {Named(Req("create_admin", 0, "none", p), n, n) : p \in NewPasswords, n \in Names}
  \cup {Req("get_user", u, "none", "none") : u \in Ids}
  \cup {Req("get_all_users", 0, f, s) : f \in RoleFilters, s \in StatusFilters}
  \cup {Req("update_user_status", u, s, "none") : u \in Ids, s \in StatusValues}
  \cup {Named(Req("update_user_profile", u, b, "none"), n, 0) :
          u \in Ids, b \in BodyRoles, n \in {0} \cup Names}
  \cup {Req("update_password", u, o, n) : u \in Ids, o \in OldPasswords,
                                           n \in NewPasswords}
  \cup {Req("delete_user", u, "none", "none") : u \in Ids}
  \cup {Req("validate_permission", 0, t, a) : t \in AskedRoles, a \in AskedActions}
  \cup {Req("probe_rbac", u, "none", a) : u \in Ids, a \in MatrixActions}

\* auth/routes.py: the routes without @require_auth.
PublicRequests ==
  {Named(Req("signup", 0, role, p), n, n) :
     role \in AskedRoles, p \in NewPasswords, n \in Names}
  \cup {Req("login", u, "none", p) : u \in Ids, p \in {GoodPassword, "wrong"}}

Creates(q) == q.route \in {"create_employee", "create_admin", "signup"}

Held == {u \in Ids : tokens[u] # "none"}

Touch(toks, u) == [toks EXCEPT ![u] = IF @ = "none" THEN "none" ELSE "stale"]

Respond(r, code, msg) ==
  /\ pc' = [pc EXCEPT ![r] = "done"]
  /\ resp' = [resp EXCEPT ![r] = [code |-> code, by |-> "handler", msg |-> msg, users |-> {}]]
  /\ repo' = [repo EXCEPT ![r] = EmptyUsers]

----------------------------------------------------------------------------
(* Steps of a request *)

Init ==
  /\ store = EmptyUsers
  /\ tokens = [i \in Ids |-> "none"]
  /\ pc = [r \in Reqs |-> "idle"]
  /\ rq = [r \in Reqs |-> NoReq]
  /\ cur = [r \in Reqs |-> NoUser]
  /\ tgt = [r \in Reqs |-> NoUser]
  /\ gi = [r \in Reqs |-> 0]
  /\ repo = [r \in Reqs |-> EmptyUsers]
  /\ resp = [r \in Reqs |-> NoResp]
  /\ readable = TRUE

\* A request arrives at a @require_auth route: the outermost decorator runs.
Arrive(r, requests) ==
  /\ UNCHANGED readable
  /\ pc[r] = "idle"
  /\ \E q0 \in requests, tok \in {NoToken, BadToken, ExpiredToken} \cup Held :
       LET q == [q0 EXCEPT !.tok = tok]
           a == require_auth_check(tok, store)
       IN /\ Creates(q) => FreshId(store) # 0
          /\ rq' = [rq EXCEPT ![r] = q]
          /\ cur' = [cur EXCEPT ![r] = a.user]
          /\ tgt' = [tgt EXCEPT ![r] = NoUser]
          /\ gi' = [gi EXCEPT ![r] = 1]
          /\ pc' = [pc EXCEPT ![r] = AfterGuard(a.code, Len(Stack(q)) = 0)]
          /\ resp' = [resp EXCEPT ![r] =
                        IF a.code = 0 THEN NoResp
                        ELSE [code |-> a.code, by |-> "require_auth", msg |-> a.msg,
                              users |-> {}]]
  /\ UNCHANGED <<store, tokens, repo>>

require_auth(r) == Arrive(r, UserRequests)

\* A request arrives at a route that no decorator guards.
ArriveOpen(r, requests) ==
  /\ UNCHANGED readable
  /\ pc[r] = "idle"
  /\ \E q \in requests :
       /\ Creates(q) => FreshId(store) # 0
       /\ q.tok \in Ids => q.tok \in Held
       /\ rq' = [rq EXCEPT ![r] = q]
  /\ cur' = [cur EXCEPT ![r] = NoUser]
  /\ tgt' = [tgt EXCEPT ![r] = NoUser]
  /\ gi' = [gi EXCEPT ![r] = 1]
  /\ pc' = [pc EXCEPT ![r] = "handler"]
  /\ resp' = [resp EXCEPT ![r] = NoResp]
  /\ UNCHANGED <<store, tokens, repo>>

ArrivePublic(r) == ArriveOpen(r, PublicRequests)

GuardStep_LocksOutOnDenial(r) ==
  /\ UNCHANGED readable
  /\ pc[r] = "guard"
  /\ LET stack == Stack(rq[r])
         g == stack[gi[r]]
         res == ApplyGuard(g, cur[r], tgt[r], rq[r].uid, store)
     IN /\ pc' = [pc EXCEPT ![r] = AfterGuard(res.code, gi[r] = Len(stack))]
        /\ tgt' = [tgt EXCEPT ![r] = res.target]
        /\ gi' = [gi EXCEPT ![r] = IF res.code = 0 THEN gi[r] + 1 ELSE gi[r]]
        /\ resp' = [resp EXCEPT ![r] =
                      IF res.code = 0 THEN NoResp
                      ELSE [code |-> res.code, by |-> g.g, msg |-> res.msg,
                            users |-> {}]]
        /\ store' = IF res.code = 0 THEN store
                    ELSE [store EXCEPT ![cur[r].user_id].status = "inactive"]
  /\ UNCHANGED <<tokens, rq, cur, repo>>

\* The next decorator of the stack decides.
GuardStep(r) ==
  /\ UNCHANGED readable
  /\ pc[r] = "guard"
  /\ LET stack == Stack(rq[r])
         g == stack[gi[r]]
         res == ApplyGuard(g, cur[r], tgt[r], rq[r].uid, store)
     IN /\ pc' = [pc EXCEPT ![r] = AfterGuard(res.code, gi[r] = Len(stack))]
        /\ tgt' = [tgt EXCEPT ![r] = res.target]
        /\ gi' = [gi EXCEPT ![r] = IF res.code = 0 THEN gi[r] + 1 ELSE gi[r]]
        /\ resp' = [resp EXCEPT ![r] =
                      IF res.code = 0 THEN NoResp
                      ELSE [code |-> res.code, by |-> g.g, msg |-> res.msg,
                            users |-> {}]]
  /\ UNCHANGED <<store, tokens, rq, cur, repo>>

\* The response leaves; the worker slot is free for the next request.
Return(r) ==
  /\ UNCHANGED readable
  /\ pc[r] = "done"
  /\ pc' = [pc EXCEPT ![r] = "idle"]
  /\ rq' = [rq EXCEPT ![r] = NoReq]
  /\ cur' = [cur EXCEPT ![r] = NoUser]
  /\ tgt' = [tgt EXCEPT ![r] = NoUser]
  /\ gi' = [gi EXCEPT ![r] = 0]
  /\ resp' = [resp EXCEPT ![r] = NoResp]
  /\ UNCHANGED <<store, tokens, repo>>

\* get_service() / UserRepository(): the handler's repository loads the store.
get_service(r) ==
  /\ UNCHANGED readable
  /\ pc[r] = "handler"
  /\ pc' = [pc EXCEPT ![r] = "service"]
  /\ repo' = [repo EXCEPT ![r] = load_data(store)]
  /\ UNCHANGED <<store, tokens, rq, cur, tgt, gi, resp>>

----------------------------------------------------------------------------
(* users/routes.py: the handler bodies, each from its service's repository *)
(* to the response.  A successful service call has saved its users dict.   *)

HasDenied(msg) == msg \in {"Access denied"}
HasPermission(msg) ==
  msg \in {"You do not have permission to update",
           "You do not have permission to change passwords",
           "You do not have permission to delete"}

InService(r, route) == pc[r] = "service" /\ rq[r].route = route

\* create_employee and create_admin: UserService.create_employee / create_admin
CreateWithRole(r, role) ==
  IF TooShort(rq[r].arg2)
  THEN /\ Respond(r, 400, "Password must be at least 6 characters")
       /\ UNCHANGED <<store, tokens, rq, cur, tgt, gi>>
  ELSE /\ FreshId(repo[r]) # 0
       /\ LET res == repo_create_user(repo[r], rq[r].username, rq[r].email,
                                      rq[r].arg2, role)
          IN IF ~res.ok
             THEN /\ Respond(r, 400, res.msg)
                  /\ UNCHANGED <<store, tokens, tgt>>
             ELSE /\ store' = res.users
                  /\ tgt' = [tgt EXCEPT ![r] = res.user]
                  \* a new uuid: no token issued before names this user
                  /\ tokens' = [tokens EXCEPT ![res.user.user_id] = "none"]
                  /\ Respond(r, 201, res.msg)
       /\ UNCHANGED <<rq, cur, gi>>

create_employee(r) ==
  /\ UNCHANGED readable
  /\ InService(r, "create_employee")
  /\ CreateWithRole(r, "emp")

create_admin(r) ==
  /\ UNCHANGED readable
  /\ InService(r, "create_admin")
  /\ CreateWithRole(r, "admin")

get_user(r) ==
  /\ UNCHANGED readable
  /\ InService(r, "get_user")
  /\ LET res == get_user_by_id(repo[r], rq[r].uid, cur[r].role, cur[r].user_id)
     IN /\ tgt' = [tgt EXCEPT ![r] = res.user]
        /\ IF res.ok THEN Respond(r, 200, "user")
           ELSE Respond(r, IF HasDenied(res.msg) THEN 403 ELSE 404, res.msg)
  /\ UNCHANGED <<store, tokens, rq, cur, gi>>

\* get_all_users: the service's list, then the role and status filters of
\* the query string.
get_all_users(r) ==
  /\ UNCHANGED readable
  /\ InService(r, "get_all_users")
  /\ LET users == get_users_list(repo[r], cur[r].role)
         by_role == IF rq[r].arg = "none" THEN users
                    ELSE {i \in users : repo[r][i].role = rq[r].arg}
         by_status == IF rq[r].arg2 = "none" THEN by_role
                      ELSE {i \in by_role : repo[r][i].status = rq[r].arg2}
     IN /\ pc' = [pc EXCEPT ![r] = "done"]
        /\ resp' = [resp EXCEPT ![r] = [code |-> 200, by |-> "handler",
                                        msg |-> "users", users |-> by_status]]
        /\ repo' = [repo EXCEPT ![r] = EmptyUsers]
  /\ UNCHANGED <<store, tokens, rq, cur, tgt, gi>>

Saved_FirstWriteWins(r, res, okCode, failCode) ==
  /\ tgt' = [tgt EXCEPT ![r] = res.user]
  /\ store' = IF res.ok /\ store = repo[r] THEN res.users ELSE store
  /\ tokens' = IF res.ok THEN Touch(tokens, rq[r].uid) ELSE tokens
  /\ Respond(r, IF res.ok THEN okCode ELSE failCode, res.msg)
  /\ UNCHANGED <<rq, cur, gi>>

\* A service call that may save: the store becomes the repository's dict.
Saved(r, res, okCode, failCode) ==
  /\ tgt' = [tgt EXCEPT ![r] = res.user]
  /\ store' = IF res.ok THEN res.users ELSE store
  /\ tokens' = IF res.ok THEN Touch(tokens, rq[r].uid) ELSE tokens
  /\ Respond(r, IF res.ok THEN okCode ELSE failCode, res.msg)
  /\ UNCHANGED <<rq, cur, gi>>

update_user_status_route(r) ==
  /\ UNCHANGED readable
  /\ InService(r, "update_user_status")
  /\ IF rq[r].arg \notin {"active", "inactive"}
     THEN /\ Respond(r, 400, "Invalid status. Must be active or inactive")
          /\ UNCHANGED <<store, tokens, rq, cur, tgt, gi>>
     ELSE Saved(r, update_user_status(repo[r], rq[r].uid, rq[r].arg,
                                      cur[r].role, cur[r].user_id), 200, 403)

update_user_profile_route_TrustsBodyRole(r) ==
  /\ UNCHANGED readable
  /\ InService(r, "update_user_profile")
  /\ LET user == find_by_id(repo[r], rq[r].uid)
         named == IF rq[r].arg = "none" THEN user.role ELSE rq[r].arg
         res == IF user = NoUser THEN Refused("User not found", repo[r], user)
                ELSE IF rq[r].uid # cur[r].user_id
                        /\ "update" \notin AllowedActions(cur[r].role, named)
                  THEN Refused("You do not have permission to update", repo[r], user)
                ELSE Done("User updated successfully", repo[r], user)
     IN IF rq[r].username = 0 /\ rq[r].email = 0
        THEN /\ Respond(r, 400, "No valid fields to update")
             /\ UNCHANGED <<store, tokens, rq, cur, tgt, gi>>
        ELSE Saved(r, res, 200, IF HasPermission(res.msg) THEN 403 ELSE 400)

update_user_profile_route_AppliesBodyRole(r) ==
  /\ UNCHANGED readable
  /\ InService(r, "update_user_profile")
  /\ LET updates == [username |-> rq[r].username, email |-> rq[r].email]
         res0 == update_user_profile(repo[r], rq[r].uid, updates,
                                     cur[r].role, cur[r].user_id)
         res == IF res0.ok /\ rq[r].arg # "none"
                THEN [res0 EXCEPT !.users[rq[r].uid].role = rq[r].arg]
                ELSE res0
     IN IF updates.username = 0 /\ updates.email = 0
        THEN /\ Respond(r, 400, "No valid fields to update")
             /\ UNCHANGED <<store, tokens, rq, cur, tgt, gi>>
        ELSE Saved(r, res, 200,
                   IF HasDenied(res.msg) \/ HasPermission(res.msg) THEN 403 ELSE 400)

update_user_profile_route(r) ==
  /\ UNCHANGED readable
  /\ InService(r, "update_user_profile")
  /\ LET updates == [username |-> rq[r].username, email |-> rq[r].email]
         res == update_user_profile(repo[r], rq[r].uid, updates,
                                    cur[r].role, cur[r].user_id)
     IN IF rq[r].arg = "none" /\ updates.username = 0 /\ updates.email = 0
        THEN /\ Respond(r, 400, "No data provided")
             /\ UNCHANGED <<store, tokens, rq, cur, tgt, gi>>
        ELSE IF updates.username = 0 /\ updates.email = 0
        THEN /\ Respond(r, 400, "No valid fields to update")
             /\ UNCHANGED <<store, tokens, rq, cur, tgt, gi>>
        ELSE Saved(r, res, 200,
                   IF HasDenied(res.msg) \/ HasPermission(res.msg) THEN 403 ELSE 400)

update_password_route(r) ==
  /\ UNCHANGED readable
  /\ InService(r, "update_password")
  /\ LET res == update_password(repo[r], rq[r].uid, rq[r].arg, rq[r].arg2,
                                cur[r].role, cur[r].user_id)
     IN IF rq[r].uid = cur[r].user_id /\ rq[r].arg = "none"
        THEN /\ Respond(r, 400, "old_password is required")
             /\ UNCHANGED <<store, tokens, rq, cur, tgt, gi>>
        ELSE Saved(r, res, 200, IF HasPermission(res.msg) THEN 403 ELSE 400)

delete_user_route(r) ==
  /\ UNCHANGED readable
  /\ InService(r, "delete_user")
  /\ Saved(r, delete_user(repo[r], rq[r].uid, cur[r].role, cur[r].user_id), 200, 403)

\* validate_permission; an exception raised by the service leaves through
\* the application's 500 handler.
validate_permission(r) ==
  /\ UNCHANGED readable
  /\ InService(r, "validate_permission")
  /\ IF Unhashable(rq[r].arg)
     THEN /\ pc' = [pc EXCEPT ![r] = "done"]
          /\ resp' = [resp EXCEPT ![r] = [code |-> 500, by |-> "internal_error",
                                          msg |-> "Internal server error",
                                          users |-> {}]]
          /\ repo' = [repo EXCEPT ![r] = EmptyUsers]
     ELSE Respond(r, 200,
                  IF validate_role_permission(cur[r].role, rq[r].arg, rq[r].arg2)
                  THEN "allowed" ELSE "not allowed")
  /\ UNCHANGED <<store, tokens, rq, cur, tgt, gi>>

\* The function the probed decorators wrap: it runs, and changes nothing.
probe_handler(r) ==
  /\ UNCHANGED readable
  /\ pc[r] = "handler"
  /\ rq[r].route \in {"probe_rbac", "probe_hierarchy", "probe_ownership",
                       "probe_permission", "probe_target"}
  /\ pc' = [pc EXCEPT ![r] = "done"]
  /\ resp' = [resp EXCEPT ![r] = [code |-> 200, by |-> "handler", msg |-> "ran",
                                  users |-> {}]]
  /\ UNCHANGED <<store, tokens, rq, cur, tgt, gi, repo>>

----------------------------------------------------------------------------
(* auth/routes.py *)

signup(r) ==
  /\ UNCHANGED readable
  /\ InService(r, "signup")
  /\ IF TooShort(rq[r].arg2)
     THEN /\ Respond(r, 400, "Password must be at least 6 characters")
          /\ UNCHANGED <<store, tokens, rq, cur, tgt, gi>>
     ELSE IF rq[r].arg \notin {"emp", "admin", "super_admin"}
     THEN /\ Respond(r, 400, "Invalid role. Choose emp, admin, or super_admin")
          /\ UNCHANGED <<store, tokens, rq, cur, tgt, gi>>
     ELSE /\ FreshId(repo[r]) # 0
          /\ LET res == repo_create_user(repo[r], rq[r].username, rq[r].email,
                                         rq[r].arg2, rq[r].arg)
             IN IF ~res.ok
                THEN /\ Respond(r, 400, res.msg)
                     /\ UNCHANGED <<store, tokens, tgt>>
                ELSE /\ store' = res.users
                     /\ tgt' = [tgt EXCEPT ![r] = res.user]
                     /\ tokens' = [tokens EXCEPT ![res.user.user_id] = "fresh"]
                     /\ Respond(r, 201, res.msg)
          /\ UNCHANGED <<rq, cur, gi>>

\* login: the username names the account; update_last_login saves the store.
login(r) ==
  /\ UNCHANGED readable
  /\ InService(r, "login")
  /\ LET user == find_by_id(repo[r], rq[r].uid)
     IN /\ tgt' = [tgt EXCEPT ![r] = user]
        /\ IF user = NoUser \/ ~verify_password(user, rq[r].arg2)
           THEN /\ Respond(r, 401, "Invalid username or password")
                /\ UNCHANGED <<store, tokens>>
           ELSE IF user.status # "active"
           THEN /\ Respond(r, 403, "Account is disabled")
                /\ UNCHANGED <<store, tokens>>
           ELSE /\ store' = repo[r]
                /\ tokens' = [tokens EXCEPT ![rq[r].uid] = "fresh"]
                /\ Respond(r, 200, "Login successful")
  /\ UNCHANGED <<rq, cur, gi>>

\* refresh_token: decode_token, the 'type' claim, then find_by_id and a new
\* access token for the user found.
refresh_token(r) ==
  /\ UNCHANGED readable
  /\ InService(r, "refresh_token")
  /\ LET user == IF rq[r].tok \in Ids THEN find_by_id(repo[r], rq[r].tok)
                 ELSE NoUser
     IN /\ tgt' = [tgt EXCEPT ![r] = user]
        /\ IF rq[r].tok = NoToken
           THEN Respond(r, 400, "Refresh token is required") /\ UNCHANGED tokens
           ELSE IF rq[r].tok = ExpiredToken
           THEN Respond(r, 401, "Token has expired") /\ UNCHANGED tokens
           ELSE IF rq[r].tok = BadToken
           THEN Respond(r, 401, "Invalid token") /\ UNCHANGED tokens
           ELSE IF rq[r].arg # "refresh"
           THEN Respond(r, 401, "Invalid token type") /\ UNCHANGED tokens
           ELSE IF user = NoUser
           THEN Respond(r, 404, "User not found") /\ UNCHANGED tokens
           ELSE /\ tokens' = [tokens EXCEPT ![rq[r].tok] = "fresh"]
                /\ Respond(r, 200, "access_token")
  /\ UNCHANGED <<store, rq, cur, gi>>

\* change_password: the new hash is put into the current_user dict that
\* require_auth passed in; the handler's own repository saves the users it
\* loaded.
change_password(r) ==
  /\ UNCHANGED readable
  /\ InService(r, "change_password")
  /\ IF TooShort(rq[r].arg2)
     THEN /\ Respond(r, 400, "New password must be at least 6 characters")
          /\ UNCHANGED <<store, cur>>
     ELSE IF ~verify_password(cur[r], rq[r].arg)
     THEN /\ Respond(r, 401, "Old password is incorrect")
          /\ UNCHANGED <<store, cur>>
     ELSE /\ cur' = [cur EXCEPT ![r].pw = hash_password(rq[r].arg2)]
          /\ store' = repo[r]
          /\ Respond(r, 200, "Password changed successfully")
  /\ UNCHANGED <<tokens, rq, tgt, gi>>

----------------------------------------------------------------------------
(* The application, its requests served one at a time *)

Next ==
  \E r \in Serial :
    \/ require_auth(r)
    \/ ArrivePublic(r)
    \/ GuardStep(r)
    \/ get_service(r)
    \/ create_employee(r)
    \/ create_admin(r)
    \/ get_user(r)
    \/ get_all_users(r)
    \/ update_user_status_route(r)
    \/ update_user_profile_route(r)
    \/ update_password_route(r)
    \/ delete_user_route(r)
    \/ validate_permission(r)
    \/ probe_handler(r)
    \/ signup(r)
    \/ login(r)
    \/ Return(r)

Spec == Init /\ [][Next]_vars

----------------------------------------------------------------------------
(* The application over a user store whose reads can fail: the file is     *)
(* missing or unreadable, or its content is not JSON.                      *)

StoreFault ==
  /\ readable
  /\ readable' = FALSE
  /\ UNCHANGED <<store, tokens, pc, rq, cur, tgt, gi, repo, resp>>

StoreRepair ==
  /\ ~readable
  /\ readable' = TRUE
  /\ UNCHANGED <<store, tokens, pc, rq, cur, tgt, gi, repo, resp>>

NextF == Next \/ StoreFault \/ StoreRepair

FaultSpec == Init /\ [][NextF]_vars

----------------------------------------------------------------------------
(* The decorators applied directly, over any stored records: a store may   *)
(* hold records this version did not write, among them a role no table     *)
(* knows.                                                                  *)

ProbeRequests ==
  {Req("probe_rbac", u, "none", a) : u \in Ids, a \in AskedActions}
  \cup {Req("probe_hierarchy", 0, m, "none") : m \in Roles \cup {LegacyRole}}
  \cup {Req("probe_ownership", u, "none", "none") : u \in Ids}
  \cup {Req("probe_permission", 0, p, "none") : p \in AskedPermissions}
  \cup {Req("probe_target", u, "none", "none") : u \in Ids}

Shapes ==
  {[role |-> "none", status |-> "none"]} \cup
  [role : Roles \cup {LegacyRole}, status : {"active", "inactive"}]

Stored(i, shape) ==
  IF shape.role = "none" THEN NoUser
  ELSE [NewUser(i, i, i, GoodPassword, shape.role) EXCEPT !.status = shape.status]

InitG ==
  /\ \E f \in [Ids -> Shapes] :
       /\ store = [i \in Ids |-> Stored(i, f[i])]
       /\ tokens = [i \in Ids |-> CASE f[i].status = "none" -> "none"
                                    [] f[i].status = "active" -> "fresh"
                                    [] OTHER -> "stale"]
  /\ pc = [r \in Reqs |-> "idle"]
  /\ rq = [r \in Reqs |-> NoReq]
  /\ cur = [r \in Reqs |-> NoUser]
  /\ tgt = [r \in Reqs |-> NoUser]
  /\ gi = [r \in Reqs |-> 0]
  /\ repo = [r \in Reqs |-> EmptyUsers]
  /\ resp = [r \in Reqs |-> NoResp]
  /\ readable = TRUE

NextG ==
  \E r \in Serial :
    \/ Arrive(r, ProbeRequests)
    \/ GuardStep(r)
    \/ probe_handler(r)
    \/ Return(r)

GuardSpec == InitG /\ [][NextG]_vars

----------------------------------------------------------------------------
(* Usernames and emails: the routes that create a user or change a        *)
(* profile, with names drawn from a pool that lets them collide, and the   *)
(* other user-management routes beside them.                               *)

ProfileNames == 1..(MaxUsers + 1)

ProfileRequests ==
  {Named(Req("create_employee", 0, "none", GoodPassword), n, e) :
     n \in ProfileNames, e \in ProfileNames}
  \cup {Named(Req("update_user_profile", u, b, "none"), n, e) :
          u \in Ids, b \in BodyRoles,
          n \in {0} \cup ProfileNames, e \in {0} \cup ProfileNames}
  \cup {Req("update_user_status", u, "inactive", "none") : u \in Ids}
  \cup {Req("update_password", u, GoodPassword, NextPassword) : u \in Ids}
  \cup {Req("delete_user", u, "none", "none") : u \in Ids}

ProfileSignups ==
  {Named(Req("signup", 0, role, GoodPassword), n, e) :
     role \in Roles, n \in ProfileNames, e \in ProfileNames}

NextP ==
  \E r \in Serial :
    \/ Arrive(r, ProfileRequests)
    \/ ArriveOpen(r, ProfileSignups)
    \/ GuardStep(r)
    \/ get_service(r)
    \/ create_employee(r)
    \/ signup(r)
    \/ update_user_profile_route(r)
    \/ update_user_status_route(r)
    \/ update_password_route(r)
    \/ delete_user_route(r)
    \/ Return(r)

ProfileSpec == Init /\ [][NextP]_vars

----------------------------------------------------------------------------
(* Passwords and tokens: the routes that check or change a password or    *)
(* issue a token, over any stored records.                                 *)

PasswordRequests ==
  {Req("update_password", u, o, n) :
     u \in Ids, o \in {"none", GoodPassword, NextPassword},
     n \in {GoodPassword, NextPassword, "short"}}
  \cup {Req("change_password", 0, o, n) :
          o \in {GoodPassword, NextPassword}, n \in {NextPassword, "short"}}

TokenRequests ==
  {Req("login", u, "none", p) : u \in Ids, p \in {GoodPassword, NextPassword}}
  \cup {[Req("refresh_token", 0, kind, "none") EXCEPT !.tok = t] :
          kind \in {"refresh", "access"},
          t \in Ids \cup {NoToken, BadToken, ExpiredToken}}

InitA ==
  /\ \E f \in [Ids -> {sh \in Shapes : sh.role # LegacyRole}] :
       /\ store = [i \in Ids |-> Stored(i, f[i])]
       /\ tokens = [i \in Ids |-> CASE f[i].status = "none" -> "none"
                                    [] f[i].status = "active" -> "fresh"
                                    [] OTHER -> "stale"]
  /\ pc = [r \in Reqs |-> "idle"]
  /\ rq = [r \in Reqs |-> NoReq]
  /\ cur = [r \in Reqs |-> NoUser]
  /\ tgt = [r \in Reqs |-> NoUser]
  /\ gi = [r \in Reqs |-> 0]
  /\ repo = [r \in Reqs |-> EmptyUsers]
  /\ resp = [r \in Reqs |-> NoResp]
  /\ readable = TRUE

NextA ==
  \E r \in Serial :
    \/ Arrive(r, PasswordRequests)
    \/ ArriveOpen(r, TokenRequests)
    \/ get_service(r)
    \/ update_password_route(r)
    \/ change_password(r)
    \/ login(r)
    \/ refresh_token(r)
    \/ Return(r)

AccountSpec == InitA /\ [][NextA]_vars

----------------------------------------------------------------------------
(* Two requests in service at once (a threaded or multi-process server):  *)
(* each handler works on the users dict its own repository loaded, and a  *)
(* save writes that whole dict.                                            *)

ConcRequests ==
  {Req("update_user_status", u, s, "none") : u \in Ids, s \in {"active", "inactive"}}
  \cup {Req("update_password", u, GoodPassword, NextPassword) : u \in Ids}

InitC ==
  /\ \E f \in [Ids -> Roles] :
       store = [i \in Ids |-> NewUser(i, i, i, GoodPassword, f[i])]
  /\ tokens = [i \in Ids |-> "fresh"]
  /\ pc = [r \in Reqs |-> "idle"]
  /\ rq = [r \in Reqs |-> NoReq]
  /\ cur = [r \in Reqs |-> NoUser]
  /\ tgt = [r \in Reqs |-> NoUser]
  /\ gi = [r \in Reqs |-> 0]
  /\ repo = [r \in Reqs |-> EmptyUsers]
  /\ resp = [r \in Reqs |-> NoResp]
  /\ readable = TRUE

NextC ==
  \E r \in Reqs :
    \/ Arrive(r, ConcRequests)
    \/ GuardStep(r)
    \/ get_service(r)
    \/ update_user_status_route(r)
    \/ update_password_route(r)
    \/ Return(r)

ConcSpec == InitC /\ [][NextC]_vars

----------------------------------------------------------------------------
(* Properties *)

\* The table of the specification's data model, written out pair by pair.
CanonicalTable(requester_role, target_role) ==
  CASE requester_role = "emp" -> {}
    [] requester_role = "admin" /\ target_role = "emp"
         -> {"create", "view", "update", "delete", "change_password"}
    [] requester_role = "admin" /\ target_role # "emp" -> {}
    [] requester_role = "super_admin" /\ target_role = "super_admin" -> {"view"}
    [] requester_role = "super_admin" /\ target_role # "super_admin"
         -> {"create", "view", "update", "delete", "change_password"}

Served(r, route) == pc[r] = "done" /\ rq[r].route = route
HandlerRan(r) == pc[r] = "done" /\ resp[r].by = "handler"
Succeeded(r) == HandlerRan(r) /\ resp[r].code \in {200, 201}

\* C1: for each of the nine role pairs the matrix has an entry, and the
\* actions it allows are exactly those of the canonical table; what
\* validate_permission answers for a requester is membership in that table.
C1_MatrixIsCanonical ==
  /\ \A rr \in Roles, tr \in Roles :
       /\ rr \in DOMAIN RBAC_MATRIX
       /\ tr \in DOMAIN RBAC_MATRIX[rr]
       /\ AllowedActions(rr, tr) = CanonicalTable(rr, tr)
  /\ \A r \in Reqs :
       (Served(r, "validate_permission") /\ HandlerRan(r)
        /\ rq[r].arg \in Roles /\ rq[r].arg2 \in MatrixActions)
       => ((resp[r].msg = "allowed")
             <=> rq[r].arg2 \in CanonicalTable(cur[r].role, rq[r].arg))

C1_Witness ==
  \E r \in Reqs :
    /\ Served(r, "validate_permission") /\ HandlerRan(r)
    /\ cur[r].role = "super_admin" /\ rq[r].arg = "super_admin"
    /\ rq[r].arg2 = "view" /\ resp[r].msg = "allowed"

\* C2: whenever the resolved target is the requester, check_rbac_permission
\* lets the wrapped function run, for every action and every role.
C2_SelfAccessPassesMatrixGuard ==
  \A r \in Reqs :
    (Served(r, "probe_rbac") /\ cur[r] # NoUser /\ tgt[r] # NoUser
     /\ tgt[r].user_id = cur[r].user_id)
    => HandlerRan(r)

MutatingRoutes ==
  {"create_employee", "create_admin", "signup", "update_user_status",
   "update_user_profile", "update_password", "delete_user"}

\* C3: no request creates, updates, deletes, or changes the status or the
\* password of a super_admin account other than the requester's own.
C3_NoMutationOfOtherSuperAdmin ==
  \A r \in Reqs :
    (Succeeded(r) /\ rq[r].route \in MutatingRoutes /\ tgt[r].role = "super_admin")
    => tgt[r].user_id = cur[r].user_id

UserAddressedRoutes ==
  {"get_user", "update_user_status", "update_user_profile", "update_password",
   "delete_user", "probe_rbac"}

\* C4: a requester of role emp completes no operation addressed to another
\* user, creates no user, and is allowed no matrix action on any role.
C4_EmpHasNoCrossUserAccess ==
  /\ \A tr \in Roles : AllowedActions("emp", tr) = {}
  /\ \A r \in Reqs :
       (pc[r] = "done" /\ cur[r].role = "emp")
       => /\ (Succeeded(r) /\ rq[r].route \in UserAddressedRoutes)
               => rq[r].uid = cur[r].user_id
          /\ rq[r].route \in {"create_employee", "create_admin"} => ~HandlerRan(r)
          /\ (rq[r].route = "validate_permission" /\ HandlerRan(r))
               => resp[r].msg = "not allowed"

C4_Witness ==
  \E r \in Reqs :
    /\ Served(r, "update_user_profile") /\ HandlerRan(r)
    /\ cur[r].role = "emp" /\ tgt[r].role = "emp"
    /\ rq[r].uid # cur[r].user_id
    /\ resp[r].code = 403

\* C5: update_user_status and delete_user on the requester's own id fail
\* with the self-modification denial for every role, and leave the users
\* dict as it was.
C5_SelfModificationDenied ==
  /\ \A u \in Ids, role \in Roles, st \in {"active", "inactive"} :
       store[u] # NoUser
       => LET s == update_user_status(store, u, st, role, u)
              d == delete_user(store, u, role, u)
          IN /\ ~s.ok /\ s.msg = "Cannot change your own status" /\ s.users = store
             /\ ~d.ok /\ d.msg = "Cannot delete your own account" /\ d.users = store
  /\ \A r \in Reqs :
       (HandlerRan(r) /\ rq[r].uid = cur[r].user_id)
       => /\ (rq[r].route = "update_user_status" /\ rq[r].arg \in {"active", "inactive"})
               => (resp[r].code = 403 /\ resp[r].msg = "Cannot change your own status"
                   /\ store[rq[r].uid] = cur[r])
          /\ rq[r].route = "delete_user"
               => (resp[r].code = 403 /\ resp[r].msg = "Cannot delete your own account"
                   /\ store[rq[r].uid] = cur[r])
  /\ \A r \in Reqs :
       (pc[r] = "done" /\ cur[r] # NoUser /\ rq[r].uid = cur[r].user_id
        /\ rq[r].route \in {"update_user_status", "delete_user"})
       => (~Succeeded(r) /\ store[rq[r].uid] = cur[r])

C5_Witness ==
  \E r \in Reqs :
    /\ Served(r, "update_user_status") /\ HandlerRan(r)
    /\ cur[r].role = "super_admin" /\ rq[r].uid = cur[r].user_id
    /\ rq[r].arg = "inactive"
    /\ resp[r].msg = "Cannot change your own status"
    /\ store[rq[r].uid].status = "active"

AuthRoutes == {q.route : q \in UserRequests \cup ProbeRequests}

\* C6: a request whose token resolves to a record that is not active is
\* answered 401 by require_auth, and nothing behind require_auth runs for
\* a principal that is not active.
C6_InactiveNeverAuthenticated ==
  \A r \in Reqs :
    rq[r].route \in AuthRoutes
    => /\ (pc[r] \in {"guard", "handler", "service"}
           \/ (pc[r] = "done" /\ resp[r].by # "require_auth"))
          => (cur[r] # NoUser /\ cur[r].status = "active")
       /\ (rq[r].tok \in Ids /\ store[rq[r].tok].status # "active")
          => (pc[r] = "done" /\ resp[r].by = "require_auth" /\ resp[r].code = 401
              /\ cur[r] = NoUser)

C6_Witness ==
  \E r \in Reqs :
    /\ Served(r, "get_user") /\ rq[r].tok \in Ids
    /\ store[rq[r].tok].role = "admin" /\ store[rq[r].tok].status = "inactive"
    /\ resp[r].code = 401 /\ resp[r].by = "require_auth"

\* C7: the principal of a request is the record the store holds when the
\* request is evaluated: a token whose account is stored active resolves to
\* exactly that record, and any other token is answered 401, whatever the
\* record was when the token was issued.
C7_ArrivalReadsStore(r) ==
  (pc[r] = "idle" /\ pc'[r] # "idle" /\ rq'[r].route \in AuthRoutes
   /\ rq'[r].tok \in Ids)
  => LET rec == store[rq'[r].tok]
     IN IF rec # NoUser /\ rec.status = "active"
        THEN cur'[r] = rec /\ resp'[r].by # "require_auth"
        ELSE pc'[r] = "done" /\ resp'[r].code = 401 /\ cur'[r] = NoUser

C7_FreshPrincipalPerRequest == [][\A r \in Reqs : C7_ArrivalReadsStore(r)]_vars

C7_Witness ==
  \E r \in Reqs :
    /\ pc[r] = "done" /\ resp[r].by = "require_auth"
    /\ resp[r].msg = "User account is disabled"
    /\ rq[r].tok \in Ids /\ tokens[rq[r].tok] = "stale"

ActionOf(q) ==
  CASE q.route = "get_user" -> "view"
    [] q.route \in {"update_user_status", "update_user_profile"} -> "update"
    [] q.route = "update_password" -> "change_password"
    [] q.route = "delete_user" -> "delete"
    [] q.route = "probe_rbac" -> q.arg2

\* C8: an operation on another user's id is decided by the matrix at the
\* role of the stored target record; a role named in the request body has
\* no part in the decision.  (validate_target_user_access, where a route
\* stacks it, may deny before the matrix is consulted; it too reads only
\* the stored record.)
C8_DecisionUsesStoredRole ==
  \A r \in Reqs :
    (pc[r] = "done" /\ rq[r].route \in UserAddressedRoutes /\ cur[r] # NoUser
     /\ store[rq[r].uid] # NoUser /\ rq[r].uid # cur[r].user_id)
    => LET allowed == ActionOf(rq[r]) \in
                        AllowedActions(cur[r].role, store[rq[r].uid].role)
       IN /\ Succeeded(r) => allowed
          /\ ~allowed => resp[r].code \in {400, 403}
          /\ (allowed /\ resp[r].code # 400
              /\ resp[r].by # "validate_target_user_access") => Succeeded(r)

C8_Witness ==
  \E r \in Reqs :
    /\ Served(r, "update_user_profile") /\ HandlerRan(r)
    /\ rq[r].arg = "emp" /\ rq[r].username # 0
    /\ cur[r].role = "admin" /\ store[rq[r].uid].role = "admin"
    /\ rq[r].uid # cur[r].user_id
    /\ resp[r].code = 403

\* C9: a handler runs, and the store changes, only after every decorator of
\* the route's stack has passed; a denial ends the request with that
\* denial, and nothing of the request is evaluated again.
C9_AllGuardsPassed(r) ==
  (pc[r] \in {"handler", "service"} \/ HandlerRan(r))
  => /\ gi[r] = Len(Stack(rq[r])) + 1
     /\ rq[r].route \in AuthRoutes => cur[r] # NoUser

C9_Step(r) ==
  /\ store' # store => \E w \in Reqs : pc[w] = "service" /\ C9_AllGuardsPassed(w)
  /\ pc[r] = "done"
       => /\ pc'[r] \in {"done", "idle"}
          /\ pc'[r] = "done" => resp'[r] = resp[r]
          /\ pc'[r] = "idle" => store' = store
  /\ (pc[r] = "guard" /\ pc'[r] = "done")
       => /\ resp'[r].code # 0
          /\ resp'[r].by = Stack(rq[r])[gi[r]].g
          /\ store' = store
  /\ (pc[r] = "guard" /\ pc'[r] \in {"guard", "handler"} /\ gi'[r] # gi[r])
       => gi'[r] = gi[r] + 1
  /\ (pc[r] = "guard" /\ pc'[r] = "handler") => gi'[r] = Len(Stack(rq[r])) + 1

C9_GuardsBeforeHandler ==
  /\ [](\A r \in Reqs : C9_AllGuardsPassed(r))
  /\ [][\A r \in Reqs : C9_Step(r)]_vars

C9_Witness ==
  \E r \in Reqs :
    /\ Served(r, "probe_rbac") /\ gi[r] = 2
    /\ resp[r].by = "check_rbac_permission" /\ resp[r].code = 403

Level(role) ==
  CASE role = "emp" -> 0 [] role = "admin" -> 1 [] role = "super_admin" -> 2

\* C10: require_role_hierarchy lets the wrapped function run exactly when
\* the principal's role is a known role whose level is at least the level
\* of min_role; a principal of an unknown role passes for no min_role.
C10_MinimumRole ==
  \A r \in Reqs :
    (Served(r, "probe_hierarchy") /\ cur[r] # NoUser /\ rq[r].arg \in Roles)
    => (HandlerRan(r)
          <=> (cur[r].role \in Roles /\ Level(cur[r].role) >= Level(rq[r].arg)))

C10_Witness ==
  \E r \in Reqs :
    /\ Served(r, "probe_hierarchy")
    /\ cur[r].role = LegacyRole /\ rq[r].arg = "emp"
    /\ resp[r].by = "require_role_hierarchy" /\ resp[r].code = 403

\* The feature flags of the specification's data model, role by role.
FlagTable(role, flag) ==
  \/ role = "super_admin" /\ flag \in Permissions
  \/ role = "admin" /\ flag \in {"can_manage_users", "can_manage_audiences",
                                 "can_view_analytics"}

\* C11: check_permission lets the wrapped function run exactly when ROLES
\* maps the principal's role to true for the named flag; a role absent from
\* ROLES, or a flag absent from the role's entry, is answered 403.
C11_FeatureFlagFailsClosed ==
  /\ \A role \in Roles, p \in Permissions :
       has_flag(role, p) <=> FlagTable(role, p)
  /\ \A r \in Reqs :
       (Served(r, "probe_permission") /\ cur[r] # NoUser)
       => /\ HandlerRan(r) <=> FlagTable(cur[r].role, rq[r].arg)
          /\ ~HandlerRan(r)
               => (resp[r].code = 403 /\ resp[r].by = "check_permission")

C11_Witness ==
  \E r \in Reqs :
    /\ Served(r, "probe_permission")
    /\ cur[r].role = LegacyRole /\ rq[r].arg = "can_manage_users"
    /\ resp[r].code = 403 /\ resp[r].by = "check_permission"

\* C12: a matrix evaluation with a requester role or a target role outside
\* the three roles, or an action outside the five actions, answers deny and
\* raises no error: validate_permission answers 200 "not allowed" and
\* check_rbac_permission answers 403.
C12_UnknownRoleOrActionDenied ==
  /\ \A rr \in Roles \cup {LegacyRole}, tr \in Roles \cup {LegacyRole},
        a \in AskedActions :
       (rr \notin Roles \/ tr \notin Roles \/ a \notin MatrixActions)
       => a \notin AllowedActions(rr, tr)
  /\ \A r \in Reqs :
       (Served(r, "validate_permission") /\ cur[r] # NoUser
        /\ (cur[r].role \notin Roles \/ rq[r].arg \notin Roles
            \/ rq[r].arg2 \notin MatrixActions))
       => (HandlerRan(r) /\ resp[r].code = 200 /\ resp[r].msg = "not allowed")
  /\ \A r \in Reqs :
       (Served(r, "probe_rbac") /\ cur[r] # NoUser /\ tgt[r] # NoUser
        /\ resp[r].by # "validate_target_user_access"
        /\ (cur[r].role \notin Roles \/ tgt[r].role \notin Roles
            \/ rq[r].arg2 \notin MatrixActions))
       => (resp[r].code = 403 /\ resp[r].by = "check_rbac_permission")

\* C13: get_user_by_id and update_user_profile on the requester's own id
\* are never refused by the matrix, whatever the requester's role and
\* although the matrix entry of the role with itself may be empty.
C13_SelfScopedAlwaysAllowed ==
  /\ \A u \in Ids, role \in Roles \cup {LegacyRole} :
       store[u] # NoUser
       => /\ get_user_by_id(store, u, role, u).ok
          /\ update_user_profile(store, u, [username |-> store[u].username, email |-> 0],
                                 role, u).ok
  /\ \A r \in Reqs :
       (pc[r] = "done" /\ cur[r] # NoUser /\ rq[r].uid = cur[r].user_id)
       => /\ rq[r].route = "get_user" => Succeeded(r)
          /\ rq[r].route = "update_user_profile"
               => /\ resp[r].code # 403
                  /\ ~HasDenied(resp[r].msg) /\ ~HasPermission(resp[r].msg)
                  /\ rq[r].username = cur[r].username => Succeeded(r)

C13_Witness ==
  \E r \in Reqs :
    /\ Served(r, "update_user_profile") /\ Succeeded(r)
    /\ cur[r].role = "admin" /\ rq[r].uid = cur[r].user_id
    /\ "update" \notin AllowedActions("admin", "admin")

\* C14: validate_target_user_access answers 404 exactly when the store has
\* no record of the addressed id; the target's status has no part in its
\* decision, and an inactive target is resolved into kwargs['target_user'].
C14_TargetResolution ==
  \A r \in Reqs :
    (pc[r] = "done" /\ rq[r].route \in {"probe_target", "probe_rbac"}
     /\ cur[r] # NoUser)
    => LET user_id == rq[r].uid
           reactivated == [store EXCEPT ![user_id].status = "active"]
       IN /\ (resp[r].by = "validate_target_user_access" /\ resp[r].code = 404)
               <=> store[user_id] = NoUser
          /\ store[user_id] # NoUser
               => /\ validate_target_user_access(cur[r], user_id, store).code
                       = validate_target_user_access(cur[r], user_id, reactivated).code
                  /\ resp[r].by # "validate_target_user_access"
                       => tgt[r] = store[user_id]
          /\ (rq[r].route = "probe_target" /\ cur[r].role = "super_admin"
              /\ store[user_id].role \in {"emp", "admin"})
               => HandlerRan(r)

C14_Witness ==
  \E r \in Reqs :
    /\ Served(r, "probe_target") /\ HandlerRan(r)
    /\ cur[r].role = "super_admin"
    /\ tgt[r].role = "admin" /\ tgt[r].status = "inactive"

\* C15: an emp asking for the users list is refused by a role guard with an
\* insufficient-role denial; the handler, with its matrix lookup and list
\* computation, does not run for the request.
C15_EmpListDeniedByRoleGuard ==
  \A r \in Reqs :
    (Served(r, "get_all_users") /\ cur[r].role = "emp")
    => (resp[r].code = 403 /\ ~HandlerRan(r))

\* C16: an admin who asks for another user whose stored role is admin is
\* answered 403 "Access denied", and the response carries nothing of that
\* user.
C16_AdminCannotViewAdmin ==
  \A r \in Reqs :
    (Served(r, "get_user") /\ cur[r].role = "admin"
     /\ rq[r].uid # cur[r].user_id /\ store[rq[r].uid].role = "admin")
    => /\ resp[r].code = 403 /\ resp[r].msg = "Access denied"
       /\ resp[r].users = {}
       /\ ~Succeeded(r)

C16_Witness ==
  \E r \in Reqs :
    /\ Served(r, "get_user") /\ HandlerRan(r)
    /\ cur[r].role = "admin" /\ tgt[r].role = "admin"
    /\ tgt[r].user_id # cur[r].user_id
    /\ resp[r].code = 403

\* C17: every request that adds a user of role admin to the store is made
\* by a principal of role super_admin.
C17_OnlySuperAdminCreatesAdmin ==
  \A r \in Reqs :
    (Succeeded(r) /\ Creates(rq[r]) /\ tgt[r].role = "admin"
     /\ store[tgt[r].user_id] = tgt[r])
    => cur[r].role = "super_admin"

\* C18: the users list a requester receives holds, for a super_admin, admin
\* and emp users and no super_admin account of another user; for an admin,
\* emp users only; for an emp, nobody.
C18_ListFilteredByRole ==
  \A r \in Reqs :
    (Served(r, "get_all_users") /\ HandlerRan(r))
    => \A i \in resp[r].users :
         /\ cur[r].role # "emp"
         /\ cur[r].role = "admin" => store[i].role = "emp"
         /\ cur[r].role = "super_admin"
              => (store[i].role \in {"admin", "emp"} \/ i = cur[r].user_id)

\* C19: a request to a @require_auth route that carries no bearer token,
\* or a token that decode_token rejects as expired or invalid, is answered
\* 401 by require_auth with no principal resolved; no decorator under
\* require_auth and no handler runs for it.
C19_NoTokenOrBadTokenUnauthenticated ==
  \A r \in Reqs :
    (pc[r] # "idle" /\ rq[r].route \in AuthRoutes
     /\ rq[r].tok \in {NoToken, BadToken, ExpiredToken})
    => /\ pc[r] = "done" /\ gi[r] = 1 /\ cur[r] = NoUser /\ tgt[r] = NoUser
       /\ resp[r].code = 401 /\ resp[r].by = "require_auth"
       /\ resp[r].msg = CASE rq[r].tok = NoToken -> "Authentication token is required"
                          [] rq[r].tok = ExpiredToken -> "Token has expired"
                          [] rq[r].tok = BadToken -> "Invalid token"

C19_Witness ==
  \E r \in Reqs :
    /\ Served(r, "delete_user") /\ rq[r].tok = ExpiredToken
    /\ store[rq[r].uid] # NoUser
    /\ resp[r].code = 401 /\ resp[r].msg = "Token has expired"

\* C20: while the user store cannot be read, a request to a @require_auth
\* route resolves no principal and is answered 401, validate_target_user_access
\* resolves no target and answers 404, and a handler that addresses a user
\* through a repository loaded during the fault finds no user, refuses and
\* saves nothing.
C20_Step(r) ==
  /\ (pc[r] = "idle" /\ pc'[r] # "idle" /\ rq'[r].route \in AuthRoutes /\ ~readable)
       => (pc'[r] = "done" /\ resp'[r].code = 401 /\ cur'[r] = NoUser)
  /\ (pc[r] = "guard" /\ pc'[r] # "guard" /\ ~readable
      /\ Stack(rq[r])[gi[r]].g = "validate_target_user_access")
       => (pc'[r] = "done" /\ resp'[r].code = 404 /\ tgt'[r] = NoUser)
  /\ (pc[r] = "handler" /\ pc'[r] = "service" /\ ~readable)
       => repo'[r] = EmptyUsers
  /\ (pc[r] = "service" /\ pc'[r] = "done" /\ repo[r] = EmptyUsers
      /\ rq[r].route \in UserAddressedRoutes \cup {"login"})
       => (resp'[r].code \in {400, 401, 403, 404} /\ store' = store)

C20_StoreFaultDenies ==
  /\ [](\A r \in Reqs :
          (pc[r] \in {"guard", "handler", "service"}
           /\ rq[r].route \in AuthRoutes) => cur[r] # NoUser)
  /\ [][\A r \in Reqs : C20_Step(r)]_vars

C20_Witness ==
  \E r \in Reqs :
    /\ ~readable /\ Served(r, "get_user") /\ rq[r].tok \in Ids
    /\ store[rq[r].tok].role = "super_admin"
    /\ store[rq[r].tok].status = "active"
    /\ resp[r].code = 401 /\ resp[r].msg = "User not found"

\* C21: of two requests in service at once on the same target, each decides
\* on the target record its own repository read, each runs to its response,
\* and a successful one leaves in the store the record it wrote, whatever
\* the other request stored in between.
C21_Step(r) ==
  (pc[r] = "service" /\ pc'[r] = "done" /\ rq[r].route = "update_user_status")
  => LET user_id == rq[r].uid
         read == repo[r][user_id]
         allowed == /\ read # NoUser
                    /\ user_id # cur[r].user_id
                    /\ "update" \in CanonicalTable(cur[r].role, read.role)
     IN /\ resp'[r].code = 200 <=> allowed
        /\ allowed => store'[user_id] = [read EXCEPT !.status = rq[r].arg]
        /\ ~allowed => (store' = store /\ resp'[r].code = 403)

C21_ConcurrentSameTarget ==
  /\ [](\A r \in Reqs :
          /\ pc[r] = "handler" => ENABLED get_service(r)
          /\ InService(r, "update_user_status")
               => ENABLED update_user_status_route(r))
  /\ [][\A r \in Reqs : C21_Step(r)]_vars

C21_Witness ==
  /\ \A r \in Reqs : Served(r, "update_user_status") /\ Succeeded(r)
  /\ rq[1].uid = rq[2].uid
  /\ rq[1].arg = "inactive" /\ rq[2].arg = "active"
  /\ store[rq[1].uid].status = "inactive"

\* C22: the decision of a guard evaluated again on what its evaluation
\* left behind (the same principal, the target it injected, the store) is
\* the decision it made, and its evaluation changes neither the user store
\* nor the principal.
C22_Step(r) ==
  (pc[r] = "guard" /\ (pc'[r] # "guard" \/ gi'[r] # gi[r]))
  => LET g == Stack(rq[r])[gi[r]]
         first == ApplyGuard(g, cur[r], tgt[r], rq[r].uid, store)
         again == ApplyGuard(g, cur'[r], tgt'[r], rq'[r].uid, store')
     IN /\ store' = store /\ tokens' = tokens /\ cur'[r] = cur[r]
        /\ again = first
        /\ first.code = 0 <=> pc'[r] # "done"
        /\ first.code # 0 => resp'[r].code = first.code

C23_Step(r) ==
  (pc[r] = "service" /\ pc'[r] = "done" /\ rq[r].route = "update_password"
   /\ store[rq[r].uid] # NoUser)
  => LET user_id == rq[r].uid
         matches == rq[r].arg # "none"
                    /\ store[user_id].pw = hash_password(rq[r].arg)
         changed == store' = [store EXCEPT ![user_id].pw = hash_password(rq[r].arg2)]
     IN /\ resp'[r].code = 200 => changed
        /\ resp'[r].code # 200 => store' = store
        /\ user_id = cur[r].user_id
             => /\ resp'[r].code = 200 => matches
                /\ (matches /\ rq[r].arg2 # "short") => resp'[r].code = 200
        /\ (user_id # cur[r].user_id /\ rq[r].arg2 # "short"
            /\ "change_password" \in CanonicalTable(cur[r].role, store[user_id].role))
             => resp'[r].code = 200

C23_OwnPasswordNeedsOldPassword == [][\A r \in Reqs : C23_Step(r)]_vars

C23_Witness ==
  \E r \in Reqs :
    /\ Served(r, "update_password") /\ Succeeded(r)
    /\ rq[r].uid = cur[r].user_id /\ cur[r].role = "emp"
    /\ rq[r].arg = GoodPassword /\ rq[r].arg2 = NextPassword
    /\ store[rq[r].uid].pw = hash_password(NextPassword)

\* C24: for a requester and a target that are distinct users with roles in
\* {emp, admin, super_admin}, validate_target_user_access admits the request
\* exactly when the matrix entry for (requester role, target role) contains
\* view.
C24_HierarchyAgreesWithMatrix ==
  \A r \in Reqs :
    (Served(r, "probe_target") /\ cur[r] # NoUser
     /\ rq[r].uid # cur[r].user_id /\ store[rq[r].uid] # NoUser
     /\ cur[r].role \in Roles /\ store[rq[r].uid].role \in Roles)
    => (HandlerRan(r)
          <=> "view" \in AllowedActions(cur[r].role, store[rq[r].uid].role))

\* C25: login and refresh return an access token only for an account whose
\* stored status is active.
C25_NoTokenForInactiveAccount ==
  \A r \in Reqs :
    (pc[r] = "done" /\ rq[r].route \in {"login", "refresh_token"}
     /\ Succeeded(r))
    => /\ tgt[r] # NoUser
       /\ store[tgt[r].user_id].status = "active"

\* C26: after change_password answers success, the hash stored for the
\* requester is the hash of the new password.
C26_ChangePasswordStoresNewHash ==
  \A r \in Reqs :
    (Served(r, "change_password") /\ Succeeded(r))
    => store[cur[r].user_id].pw = hash_password(rq[r].arg2)

\* C27: when two requests in service at once both succeed in changing two
\* different users, the store holds both changes once both have finished.
C27_Applied(r) ==
  /\ rq[r].route = "update_user_status"
       => store[rq[r].uid].status = rq[r].arg
  /\ rq[r].route = "update_password"
       => store[rq[r].uid].pw = hash_password(rq[r].arg2)

C27_BothMutationsKept ==
  \A r1 \in Reqs, r2 \in Reqs :
    (r1 # r2 /\ pc[r1] = "done" /\ pc[r2] = "done"
     /\ Succeeded(r1) /\ Succeeded(r2) /\ rq[r1].uid # rq[r2].uid)
    => C27_Applied(r1) /\ C27_Applied(r2)

\* C28: with create_user and update_user_profile executed one at a time, no
\* two stored users ever have the same username or the same email; a request
\* whose username or email another stored user has fails, and a request that
\* fails leaves the store as it was.
C28_Unique ==
  \A i \in Ids, j \in Ids :
    (i # j /\ store[i] # NoUser /\ store[j] # NoUser)
    => /\ store[i].username # store[j].username
       /\ store[i].email # store[j].email

C28_Step(r) ==
  (pc[r] = "service" /\ pc'[r] = "done"
   /\ rq[r].route \in {"signup", "create_employee", "create_admin", "update_user_profile"})
  => LET addressed == IF rq[r].route = "update_user_profile" THEN rq[r].uid ELSE 0
         clash == \E i \in Ids :
                    /\ store[i] # NoUser /\ i # addressed
                    /\ \/ rq[r].username # 0 /\ store[i].username = rq[r].username
                       \/ rq[r].email # 0 /\ store[i].email = rq[r].email
     IN /\ clash => resp'[r].code \notin {200, 201}
        /\ resp'[r].code \notin {200, 201} => store' = store

C28_UsernamesAndEmailsUnique ==
  []C28_Unique /\ [][\A r \in Reqs : C28_Step(r)]_vars

C28_Witness ==
  \E r \in Reqs :
    /\ Served(r, "update_user_profile") /\ HandlerRan(r)
    /\ resp[r].msg = "Email already exists"
    /\ \A i \in Ids : store[i] # NoUser
    /\ \E i \in Ids : i # rq[r].uid /\ store[i].email = rq[r].email

\* C29: no step of update_user_profile, update_password, update_user_status
\* or delete_user (nor any other step) changes the role of a stored record or
\* removes the record; a step of update_user_profile leaves every record but
\* the addressed one as it was, and the addressed one as it was but for its
\* username and email.
C29_Step ==
  /\ \A i \in Ids :
       store[i] # NoUser
       => store'[i] # NoUser /\ store'[i].role = store[i].role
  /\ \A r \in Reqs :
       (pc[r] = "service" /\ pc'[r] = "done" /\ rq[r].route = "update_user_profile")
       => /\ \A i \in Ids : i # rq[r].uid => store'[i] = store[i]
          /\ store[rq[r].uid] # NoUser
               => [store'[rq[r].uid] EXCEPT !.username = store[rq[r].uid].username,
                                            !.email = store[rq[r].uid].email]
                    = store[rq[r].uid]

C29_RoleFixedAtCreation == [][C29_Step]_vars

C29_Witness ==
  \E r \in Reqs :
    /\ Served(r, "update_user_profile") /\ Succeeded(r)
    /\ rq[r].uid # cur[r].user_id /\ rq[r].arg = "emp"
    /\ store[rq[r].uid].role = "admin"
    /\ rq[r].username # 0 /\ store[rq[r].uid].username = rq[r].username
    /\ store[rq[r].uid].email # rq[r].username

\* C30: a stored super_admin whose status is active is active after every
\* step: no status change or delete request, by the account itself or by any
\* other user, makes it inactive.
C30_Step ==
  \A i \in Ids :
    (store[i] # NoUser /\ store[i].role = "super_admin"
     /\ store[i].status = "active")
    => store'[i].role = "super_admin" /\ store'[i].status = "active"

C30_SuperAdminStaysActive == [][C30_Step]_vars

C30_Witness ==
  \E r \in Reqs :
    /\ Served(r, "delete_user") /\ HandlerRan(r) /\ ~Succeeded(r)
    /\ cur[r].role = "super_admin" /\ rq[r].uid # cur[r].user_id
    /\ store[rq[r].uid].role = "super_admin"
    /\ store[rq[r].uid].status = "active"

====
